---- MODULE Spec2Model ----
(***************************************************************************)
(* A model of the retrieval core of bodhibot-line-beta:                    *)
(*   app/services/sutra_retriever.py   SutraRetriever                      *)
(*   app/services/vector_store.py      VectorStore                         *)
(*   app/services/reranker.py          Reranker                            *)
(*   app/services/embedding_service.py EmbeddingService                    *)
(*                                                                         *)
(* Numbers that are floats in the program (distances, relevances, scores,  *)
(* vector components) are fixed-point integers in units of 1/One.          *)
(* Strings are sequences of one-character strings.                         *)
(* A call either returns a value or raises: [kind |-> "return", value] or  *)
(* [kind |-> "raise", exc].                                                *)
(***************************************************************************)
EXTENDS Integers, Sequences, FiniteSets, TLC

VARIABLES
    \* configuration, fixed when the services are constructed
    rerank_available,   \* SutraRetriever.rerank_available
    embeddings,         \* EmbeddingService.embeddings: "None" when the service is
                        \* unavailable, else the embedding model behind it
    hash_seed,          \* hash("fixed_seed") % 2**32 of this process
    \* the retrieval call in flight
    op,                 \* "none", "query_sutra", "search_by_query", "get_embedding"
    pc,                 \* its position (the await it is suspended at)
    user_query,         \* argument: the query string (the text, for get_embedding)
    top_k,              \* argument: top_k (query_sutra) or limit (search_by_query)
    use_rerank,         \* argument
    use_hybrid,         \* argument
    store,              \* the documents the vector store holds near this query
    candidates,         \* the list handed to the ranking step
    result,             \* what the call returned or raised
    \* locals of query_sutra
    filter_sutra,       \* argument of query_sutra
    search_filter,
    sutra_index,        \* position of the loop over default_sutras
    default_results,
    all_results,
    searched,           \* the kinds of collection search issued so far
    any_hit,            \* whether some collection search returned a passage
    \* locals of search_by_query
    vector_results,
    search_results,
    scores,             \* what Reranker.rerank returned
    \* history
    fake_returns,       \* the texts and vectors of the calls get_embedding has
                        \* answered in fallback mode
    \* numpy
    np_random,          \* the generator behind np.random, one per process: the seed
                        \* it was last given and the numbers drawn since
    \* UserManager
    local_storage,      \* user_id -> [chat_history, request_timestamps]
    user_status,        \* user_id -> [status, timestamp]
    clock,              \* the wall clock, in ticks
    um_call,            \* the last UserManager call and what it returned
    \* history of the UserManager calls
    stored,             \* user_id -> the messages stored since the last clear
    rate_log,           \* user_id -> first and last call of check_rate_limit,
                        \* their number, and what the last returned
    \* SutraRecommender
    rec_call,           \* the last recommend_related_sutras call: its arguments,
                        \* the list it built and what it returned
    \* Reranker
    rr_call,            \* the last Reranker.rerank call: its arguments, the texts it
                        \* passed to get_embedding and what it returned
    \* VectorStore
    vs_call,            \* the last VectorStore.search call: what its collaborators
                        \* did and what it returned
    \* line_webhook
    tasks,              \* the handle_text_message invocations: whose message, which
                        \* message, and where the coroutine stands
    last_event          \* the last step of the webhook: which task took it, for which
                        \* message, how it went and what the user's history and
                        \* status were before it

cfgVars == <<rerank_available, embeddings, hash_seed>>

callVars == <<op, pc, user_query, top_k, use_rerank, use_hybrid, store,
              candidates, result>>

qsVars == <<filter_sutra, search_filter, sutra_index, default_results,
            all_results, searched, any_hit>>

sbqVars == <<vector_results, search_results, scores>>

userVars == <<local_storage, user_status, clock, um_call, stored, rate_log>>

retrievalVars == <<cfgVars, callVars, qsVars, sbqVars, fake_returns, np_random>>

statelessVars == <<rec_call, vs_call, rr_call>>

webVars == <<tasks, last_event>>

serviceVars == <<userVars, statelessVars, webVars>>

vars == <<retrievalVars, serviceVars>>

----------------------------------------------------------------------------
(* Bounds of the model *)

MaxTopK == 3
MaxLimit == 2
MaxDocs == 3
MaxHashSeed == 1
EmbeddingDim == 2
MaxFakeCalls == 2
MaxCandidates == 5
TicksPerSecond == 2
HISTORY_LIMIT == 2
MaxStored == 5
MaxContentLen == 3
MaxTasks == 2

(* Program constants *)

One == 100
DedupPrefixLen == 50
window_seconds == 60
max_requests == 10
status_timeout_seconds == 300
NumDefaultSutras == 8

----------------------------------------------------------------------------
(* Generic helpers *)

Min(a, b) == IF a < b THEN a ELSE b

Max(a, b) == IF a > b THEN a ELSE b

Rep(c, n) == [j \in 1..n |-> c]

\* Python's seq[:n] for n >= 0
Take(s, n) == SubSeq(s, 1, Min(n, Len(s)))

Range(s) == {s[j] : j \in 1..Len(s)}

Return(v) == [kind |-> "return", value |-> v]

Raise(e) == [kind |-> "raise", exc |-> e]

NoResult == [kind |-> "none"]

----------------------------------------------------------------------------
(* The documents a vector store can hold.  Document d has an id, metadata  *)
(* sutra_id, a text and a distance to the query.  Odd documents belong to  *)
(* sutra A and share their first 50 characters, even ones to sutra B; a    *)
(* store holds the documents 1..n.                                         *)

DocIds == 1..MaxDocs

DocSutraId(d) == IF d % 2 = 1 THEN <<"A">> ELSE <<"B">>

DocText(d) == Rep(IF d % 2 = 1 THEN "a" ELSE "b", DedupPrefixLen) \o Rep("x", d)

DocDistance(d) == IF d % 3 = 0 THEN 10 * d ELSE 60 * d

Stores == {1..n : n \in 0..MaxDocs}

TopKs == 0..MaxTopK

Limits == 0..MaxLimit

Queries == {<<>>, <<"q">>}

FilterSutras == {"None", "JinGangJing", "other"}

sutra_id_map == [n \in {"JinGangJing"} |-> <<"T", "0", "2", "3", "5">>]

----------------------------------------------------------------------------
(* VectorStore.search: the k nearest documents, each formatted as a dict   *)
(* with its text, relevance = 1 - distance, and its metadata.              *)

Relevance(distance) == One - distance

FormatResult(d) ==
    [text |-> DocText(d), relevance |-> Relevance(DocDistance(d)),
     sutra_id |-> DocSutraId(d), custom_document |-> FALSE]

RECURSIVE Nearest(_)
Nearest(S) ==
    IF S = {} THEN <<>>
    ELSE LET d == CHOOSE x \in S : \A y \in S : DocDistance(x) <= DocDistance(y)
         IN <<d>> \o Nearest(S \ {d})

VectorStoreSearch(S, k) == [j \in 1..Min(k, Cardinality(S)) |-> FormatResult(Nearest(S)[j])]

\* get_vectorstore, lines 73-95: the collection, or None
OpenOutcomes == {"opened", "raise"}

get_vectorstore(embedding_available, outcome) ==
    IF ~embedding_available THEN "None"
    ELSE IF outcome = "raise" THEN "None"
    ELSE "Chroma"

\* similarity_search_with_score and the formatting loop, lines 148-166
SimilarityOutcomes == {"results", "raise"}

SearchBody(vectorstore, outcome, S, k) ==
    IF vectorstore = "None" THEN Return(<<>>)
    ELSE IF outcome = "raise" THEN Raise("Exception")
    ELSE Return(VectorStoreSearch(S, k))

SearchReraise(r) == r

\* lines 167-169
SearchExcept(r) == IF r.kind = "raise" THEN Return(<<>>) ELSE r

\* VectorStore.search, lines 126-169
VectorStoreSearchCall(embedding_available, open_outcome, outcome, S, k) ==
    IF ~embedding_available THEN Return(<<>>)
    ELSE SearchExcept(SearchBody(get_vectorstore(embedding_available, open_outcome),
                                 outcome, S, k))

----------------------------------------------------------------------------
(* SutraRetriever._get_fallback_results: the four hard-coded passages.     *)

FallbackResults ==
    << [text |-> <<"f", "1">>, relevance |-> 85,
        sutra_id |-> <<"T", "0", "9", "4", "5">>, custom_document |-> FALSE],
       [text |-> <<"f", "2">>, relevance |-> 82,
        sutra_id |-> <<"T", "0", "2", "6", "2">>, custom_document |-> FALSE],
       [text |-> <<"f", "3">>, relevance |-> 80,
        sutra_id |-> <<"T", "0", "2", "3", "5">>, custom_document |-> FALSE],
       [text |-> <<"f", "4">>, relevance |-> 78,
        sutra_id |-> <<"T", "2", "0", "0", "8">>, custom_document |-> FALSE] >>

_get_fallback_results == FallbackResults

----------------------------------------------------------------------------
(* Reranker as query_sutra calls it.  The class defines rerank(query,      *)
(* texts) and rerank_with_custom_model(query, texts); a call of a method   *)
(* it lacks raises AttributeError, a call with the wrong number of         *)
(* arguments raises TypeError.                                             *)

RerankerMethods == [m \in {"rerank", "rerank_with_custom_model"} |-> 2]

RerankerCall(method, nargs) ==
    IF method \notin DOMAIN RerankerMethods THEN Raise("AttributeError")
    ELSE IF RerankerMethods[method] # nargs THEN Raise("TypeError")
    ELSE [kind |-> "return", value |-> "coroutine"]

----------------------------------------------------------------------------
(* sorted(..., key=lambda x: x.get(key, 0), reverse=True): stable,         *)
(* descending; a dict without the key sorts as 0.                          *)

Get(r, key, default) == IF key \in DOMAIN r THEN r[key] ELSE default

RECURSIVE InsertDesc(_, _, _)
InsertDesc(s, x, key) ==
    IF s = <<>> THEN <<x>>
    ELSE IF Get(Head(s), key, 0) >= Get(x, key, 0)
         THEN <<Head(s)>> \o InsertDesc(Tail(s), x, key)
         ELSE <<x>> \o s

RECURSIVE SortDesc(_, _)
SortDesc(s, key) ==
    IF s = <<>> THEN <<>>
    ELSE InsertDesc(SortDesc(SubSeq(s, 1, Len(s) - 1), key), s[Len(s)], key)

(* lines 213-220: keep the first result of every sutra_id + text[:50]      *)

ResultId(r) == r.sutra_id \o Take(r.text, DedupPrefixLen)

RECURSIVE Unique(_, _)
Unique(s, seen_ids) ==
    IF s = <<>> THEN <<>>
    ELSE IF ResultId(Head(s)) \in seen_ids THEN Unique(Tail(s), seen_ids)
    ELSE <<Head(s)>> \o Unique(Tail(s), seen_ids \cup {ResultId(Head(s))})

UniqueResults(s) == Unique(s, {})

(* lines 149-159 and 223-235: the ranking step *)

RankResultsShort(rs, k, avail, rerank, hybrid) ==
    IF avail /\ rerank
    THEN IF hybrid THEN RerankerCall("hybrid_rerank", 3)
                   ELSE RerankerCall("rerank", 3)
    ELSE Return(Take(SortDesc(rs, "relevance"), k - 1))

RankResults(rs, k, avail, rerank, hybrid) ==
    IF avail /\ rerank
    THEN IF hybrid THEN RerankerCall("hybrid_rerank", 3)
                   ELSE RerankerCall("rerank", 3)
    ELSE Return(Take(SortDesc(rs, "relevance"), k))

(* lines 237-239: the handler around the body of query_sutra *)

QueryReraise(r) == r

QueryExcept(r) == IF r.kind = "raise" THEN Return(_get_fallback_results) ELSE r

(* lines 126-137: one collection search and its handlers.  The store is    *)
(* called as search(query=..., limit=top_k); the call raises TypeError     *)
(* (VectorStore.search takes collection_name and k, not limit), raises     *)
(* something else, or answers.                                             *)

SearchOutcomes == {"TypeError", "Exception", "results"}

StoreSearchCall(outcome, S, k) ==
    IF outcome = "results" THEN Return(VectorStoreSearch(S, k)) ELSE Raise(outcome)

SearchUnguarded(outcome, S, k) == StoreSearchCall(outcome, S, k)

\* the try of lines 126-137 (162-173, 193-204): a search that raises counts
\* as one that found nothing
TrySearch(outcome, S, k) ==
    LET r == StoreSearchCall(outcome, S, k)
    IN IF r.kind = "raise" THEN Return(<<>>) ELSE r

GuardedSearch(outcome, S, k) == TrySearch(outcome, S, k).value

EnoughDefaultsStrict(results, k) == Len(results) > k

\* line 145
EnoughDefaults(results, k) == Len(results) >= k

MarkCustom(rs, flag) == [j \in 1..Len(rs) |-> [rs[j] EXCEPT !.custom_document = flag]]

(* lines 186-190 *)

NoFallback(rs) == rs

WithFallback(rs) == IF Len(rs) = 0 THEN rs \o _get_fallback_results ELSE rs

(* lines 111-119 *)

SearchFilter(f) ==
    IF f = "None" THEN <<>>
    ELSE IF f \in DOMAIN sutra_id_map THEN <<"sutra_id", sutra_id_map[f]>>
    ELSE <<"source", f>>

----------------------------------------------------------------------------
(* EmbeddingService.  Vectors are sequences of fixed-point numbers.        *)
(* EmbeddingDim stands for the 1536 components of the fallback vector.     *)

HashSeeds == 0..MaxHashSeed

EmbeddingModels == {"ada-002", "other"}

\* the dimension of the vectors the embedding model returns
ModelDim(model) == IF model = "ada-002" THEN EmbeddingDim ELSE EmbeddingDim + 1

Dot(v, w) ==
    LET RECURSIVE Sum(_)
        Sum(j) == IF j = 0 THEN 0 ELSE v[j] * w[j] + Sum(j - 1)
    IN Sum(Len(v))

\* floor of the square root
RECURSIVE SqrtBetween(_, _, _)
SqrtBetween(n, lo, hi) ==
    IF lo >= hi THEN lo
    ELSE LET mid == (lo + hi + 1) \div 2
         IN IF mid * mid <= n THEN SqrtBetween(n, mid, hi)
                              ELSE SqrtBetween(n, lo, mid - 1)

Sqrt(n) == SqrtBetween(n, 0, Min(n, 46340))

\* np.random.seed(seed); np.random.normal(0, 1, dim): a vector the seed fixes
RandomNormal(seed, dim) == [j \in 1..dim |-> (((seed + j) % 5) - 2) * One]

\* v / np.linalg.norm(v)
Normalize(v) == [j \in 1..Len(v) |-> (v[j] * One) \div Sqrt(Dot(v, v))]

\* _get_fake_embedding(dim): the text is not an input
_get_fake_embedding(seed, dim) == Normalize(RandomNormal(seed, dim))

\* the generator of a fresh process, seeded by numpy from the system's
\* entropy (seed -1 stands for that), and the generator _get_fake_embedding
\* leaves behind: seeded at line 83, dim numbers drawn at line 86
Unseeded == [seed |-> -1, drawn |-> 0]

GeneratorAfterFake(seed, dim) == [seed |-> seed, drawn |-> dim]

\* the generator after a number of get_embedding calls, some of which fell
\* back
GeneratorAfter(generator, fell_back, seed) ==
    IF fell_back THEN GeneratorAfterFake(seed, EmbeddingDim) ELSE generator

\* what the backend does in one embed_query call: it raises, or it answers
\* with a vector of the model's dimension
EmbedOutcomes == {"raise", "zero", "e1", "minus_e1"}

EmbedQuery(outcome, dim) ==
    CASE outcome = "zero"     -> Return([j \in 1..dim |-> 0])
      [] outcome = "e1"       -> Return([j \in 1..dim |-> IF j = 1 THEN One ELSE 0])
      [] outcome = "minus_e1" -> Return([j \in 1..dim |-> IF j = 1 THEN -One ELSE 0])
      [] OTHER                -> Raise("Exception")

\* without a backend no embed_query call is made
BackendOutcomes(emb) == IF emb = "None" THEN {"none"} ELSE EmbedOutcomes

\* lines 55-58 and 67-69: what get_embedding returns when it falls back
FallbackEmbeddingOfText(text, seed) == _get_fake_embedding(seed + Len(text), EmbeddingDim)

FallbackEmbedding(text, seed) == _get_fake_embedding(seed, EmbeddingDim)

\* get_embedding(text), lines 54-69
get_embedding(text, emb, seed, outcome) ==
    IF emb = "None" THEN Return(FallbackEmbedding(text, seed))
    ELSE LET r == EmbedQuery(outcome, ModelDim(emb))
         IN IF r.kind = "raise" THEN Return(FallbackEmbedding(text, seed)) ELSE r

\* whether that call returned the fallback vector
FellBack(emb, outcome) == emb = "None" \/ outcome = "raise"

\* what one get_embedding call writes to the log: the warning of line 56
\* when there is no backend, the error of line 68 when embed_query raised
FallbackLog(emb, outcome) ==
    IF emb = "None" THEN <<[level |-> "warning", line |-> 56]>>
    ELSE IF outcome = "raise" THEN <<[level |-> "error", line |-> 68]>>
    ELSE <<>>

----------------------------------------------------------------------------
(* Reranker *)

\* lines 88-99, without the clamp of line 99
RawCosine(vec1, vec2) ==
    (Dot(vec1, vec2) * One) \div Sqrt(Dot(vec1, vec1) * Dot(vec2, vec2))

NoClamp(x) == x

\* line 99
Clamp(x) == Max(0, Min(One, x))

\* _cosine_similarity, lines 72-99; np.dot raises on vectors of different
\* lengths
_cosine_similarity(vec1, vec2) ==
    IF Len(vec1) # Len(vec2) THEN Raise("ValueError")
    ELSE IF Dot(vec1, vec1) = 0 \/ Dot(vec2, vec2) = 0 THEN Return(0)
    ELSE Return(Clamp(RawCosine(vec1, vec2)))

\* rerank(query, texts), lines 43-70, given the embeddings its calls of
\* get_embedding returned: that of the query, then those of the texts
rerank(texts, query_embedding, text_embeddings) ==
    IF texts = <<>> THEN <<>>
    ELSE LET sims == [j \in 1..Len(texts) |->
                        _cosine_similarity(query_embedding, text_embeddings[j])]
         IN IF \E j \in 1..Len(texts) : sims[j].kind = "raise"
            THEN [j \in 1..Len(texts) |-> One]
            ELSE [j \in 1..Len(texts) |-> sims[j].value]

EmbeddedTextsEager(query, texts) == <<query>> \o texts

\* lines 43-55: the texts rerank passes to get_embedding, in call order
EmbeddedTexts(query, texts) == IF texts = <<>> THEN <<>> ELSE <<query>> \o texts

----------------------------------------------------------------------------
(* UserManager.  The clock counts ticks of 1 / TicksPerSecond seconds;     *)
(* HISTORY_LIMIT stands for the configured value (5 when the environment   *)
(* sets none).                                                             *)

Users == {"u1", "u2"}

Roles == {"user", "assistant"}

\* the callers send a new text with every message: the n-th text
Contents == 1..MaxStored

WindowTicks == window_seconds * TicksPerSecond

\* int(time.time()), line 196
IntTime(ticks) == ticks \div TicksPerSecond

\* lines 114-118 and 200-204
NewUserEntry == [chat_history |-> <<>>, request_timestamps |-> <<>>]

EntryOf(storage, user_id) ==
    IF user_id \in DOMAIN storage THEN storage[user_id] ELSE NewUserEntry

FirstN(s, n) == IF Len(s) > n THEN SubSeq(s, 1, n) ELSE s

\* Python's seq[-n:] for n >= 1
LastN(s, n) == IF Len(s) > n THEN SubSeq(s, Len(s) - n + 1, Len(s)) ELSE s

PrependMessage(history, message) == <<message>> \o history

\* lines 122-126: append, then keep the last history_limit * 2 messages
AppendMessage(history, message) ==
    LET h == Append(history, message)
    IN IF Len(h) > HISTORY_LIMIT * 2 THEN LastN(h, HISTORY_LIMIT * 2) ELSE h

\* set_user_status, lines 51-54
StatusEntry(status, now) == [status |-> status, timestamp |-> now]

\* lines 129-134: the status store_message leaves behind
StatusAfterStore(statuses, user_id, role, now) ==
    IF role = "user" THEN (user_id :> StatusEntry("processing", now)) @@ statuses
    ELSE IF role = "assistant" THEN (user_id :> StatusEntry("idle", now)) @@ statuses
    ELSE statuses

\* lines 212-215: the timestamps inside the window
RECURSIVE InWindow(_, _)
InWindow(timestamps, window_start) ==
    IF timestamps = <<>> THEN <<>>
    ELSE IF Head(timestamps) > window_start
         THEN <<Head(timestamps)>> \o InWindow(Tail(timestamps), window_start)
         ELSE InWindow(Tail(timestamps), window_start)

\* only the calls that were let through are kept
TimestampsOfAccepted(timestamps, now) ==
    LET kept == InWindow(Append(timestamps, IntTime(now)), IntTime(now) - window_seconds)
    IN IF Len(kept) > max_requests THEN SubSeq(kept, 1, Len(kept) - 1) ELSE kept

\* lines 196-215: the timestamps check_rate_limit leaves behind
TimestampsAfterCheck(timestamps, now) ==
    LET current_time == IntTime(now)
        window_start == current_time - window_seconds
    IN InWindow(Append(timestamps, current_time), window_start)

WithinLimitInclusive(request_count) == ~(request_count >= max_requests)

\* lines 218-225
WithinLimit(request_count) == ~(request_count > max_requests)

NoCalls == [calls |-> 0, first |-> 0, last |-> 0, allowed |-> TRUE, seconds |-> <<>>]

\* sensitive_words, lines 27-30, one string per character of a word
sensitive_words ==
    << <<"se", "qing">>, <<"du", "bo">>, <<"du2", "pin">>, <<"zi", "sha">>,
       <<"bao", "li">>, <<"wei", "fa">>, <<"kong", "bu">>,
       <<"zhong", "zu", "qi", "shi">>, <<"zheng", "zhi", "min", "gan">>,
       <<"yin", "hui">>, <<"chi", "luo">>, <<"luo", "lu">>, <<"qing", "se">> >>

\* word in content
Contains(content, word) ==
    \E j \in 1..(Len(content) - Len(word) + 1) :
        SubSeq(content, j, j + Len(word) - 1) = word

\* str.replace(word, by): the occurrences from the left that do not overlap
RECURSIVE Replace(_, _, _)
Replace(content, word, by) ==
    IF Len(content) < Len(word) THEN content
    ELSE IF SubSeq(content, 1, Len(word)) = word
         THEN by \o Replace(SubSeq(content, Len(word) + 1, Len(content)), word, by)
         ELSE <<Head(content)>> \o Replace(Tail(content), word, by)

\* the loop of lines 246-250 over the words that remain
RECURSIVE FilterWords(_, _, _, _)
FilterWords(words, content, has_sensitive, filtered_content) ==
    IF words = <<>> THEN <<has_sensitive, filtered_content>>
    ELSE LET word == Head(words)
         IN IF Contains(content, word)
            THEN FilterWords(Tail(words), content, TRUE,
                             Replace(filtered_content, word, Rep("*", Len(word))))
            ELSE FilterWords(Tail(words), content, has_sensitive, filtered_content)

\* filter_sensitive_content, lines 231-255
filter_sensitive_content(content) == FilterWords(sensitive_words, content, FALSE, content)

FilterAlphabet == {"chi", "luo", "lu", "se", "qing", "x"}

FilterContents == UNION {[1..n -> FilterAlphabet] : n \in 0..MaxContentLen}

----------------------------------------------------------------------------
(* line_webhook.handle_text_message.  message_text starts one task per     *)
(* incoming message; a task runs until it ends or until an await that      *)
(* leaves the event loop to the other tasks: get_formatted_news,           *)
(* recommend_related_sutras, generate_response.  The awaits of the         *)
(* UserManager methods never suspend.  A message is one of                 *)
(*   clear_history  the text of line 255      confirm_clear  of line 339   *)
(*   cancel_clear   of line 367               news           of line 381   *)
(*   usage          of line 424               meditation     of line 455   *)
(*   main_menu      a menu keyword of line 506 that no branch handles      *)
(*   greeting       a text is_simple_query recognises                      *)
(*   recommend      of line 568               sensitive      a text with a *)
(*   sensitive word                           question       anything else *)

TaskIds == 1..MaxTasks

\* the user whose messages arrive
Senders == {"u1"}

Messages == {"clear_history", "confirm_clear", "cancel_clear", "news", "usage",
             "meditation", "main_menu", "greeting", "recommend", "sensitive", "question"}

\* line 506
MenuKeywords == {"main_menu", "dharma_study", "life_application", "spiritual_growth",
                 "news", "meditation", "usage"}

\* the text of a message, as far as the sensitive-word filter reads it
MessageText(m) == IF m = "sensitive" THEN <<"x", "se", "qing">> ELSE <<"x">>

StatusTimeoutTicks == status_timeout_seconds * TicksPerSecond

NoTask == [pc |-> "none"]

InitWeb == tasks = [t \in TaskIds |-> NoTask] /\ last_event = [name |-> "none"]

\* set_user_status, lines 44-55, on um = [storage, statuses]
SetStatus(um, user_id, status, now) ==
    [um EXCEPT !.statuses = (user_id :> StatusEntry(status, now)) @@ um.statuses]

GetStatusResetting(um, user_id, now) ==
    [value |-> IF user_id \in DOMAIN um.statuses
               THEN um.statuses[user_id].status ELSE "idle",
     um |-> SetStatus(um, user_id, "idle", now)]

\* get_user_status, lines 57-79: the value returned and the state left
get_user_status(um, user_id, now) ==
    IF user_id \notin DOMAIN um.statuses THEN [value |-> "idle", um |-> um]
    ELSE IF now - um.statuses[user_id].timestamp > StatusTimeoutTicks
    THEN [value |-> "idle", um |-> SetStatus(um, user_id, "idle", now)]
    ELSE [value |-> um.statuses[user_id].status, um |-> um]

\* store_message, lines 94-139
store_message(um, user_id, role, content, now) ==
    LET entry == EntryOf(um.storage, user_id)
        message == [role |-> role, content |-> content, timestamp |-> now]
    IN [storage |-> (user_id :> [entry EXCEPT !.chat_history = AppendMessage(@, message)])
                       @@ um.storage,
        statuses |-> StatusAfterStore(um.statuses, user_id, role, now)]

KeepHistory(um, user_id, now) == SetStatus(um, user_id, "idle", now)

\* clear_chat_history, lines 161-183
clear_chat_history(um, user_id, now) ==
    SetStatus([um EXCEPT !.storage =
                  IF user_id \in DOMAIN um.storage
                  THEN [um.storage EXCEPT ![user_id].chat_history = <<>>]
                  ELSE um.storage],
              user_id, "idle", now)

\* check_rate_limit, lines 185-229: the value returned and the state left
check_rate_limit(um, user_id, now) ==
    LET entry == EntryOf(um.storage, user_id)
        kept == TimestampsAfterCheck(entry.request_timestamps, now)
    IN [value |-> WithinLimit(Len(kept)),
        um |-> [um EXCEPT !.storage =
                   (user_id :> [entry EXCEPT !.request_timestamps = kept]) @@ um.storage]]

\* how a step of a task ends: the coroutine is over (pc "ended", raised says
\* whether by an exception) or waits at an await (pc names the callee)
Ended(um, verdict, raised, set_processing) ==
    [um |-> um, pc |-> "ended", verdict |-> verdict, raised |-> raised,
     set_processing |-> set_processing]

Suspended(um, callee) ==
    [um |-> um, pc |-> callee, verdict |-> callee, raised |-> FALSE,
     set_processing |-> TRUE]

\* lines 504-659: a message no earlier branch has taken
HandleQuestion(um, user_id, m, now, push_ok, reply_ok) ==
    LET got == get_user_status(um, user_id, now)
        limit == check_rate_limit(got.um, user_id, now)
        has_sensitive == filter_sensitive_content(MessageText(m))[1]
        stored_um == store_message(limit.um, user_id, "user", m, now)
    IN IF got.value = "processing" /\ m \notin MenuKeywords
       THEN Ended(got.um, "busy", ~reply_ok, FALSE)
       ELSE IF ~limit.value THEN Ended(limit.um, "rate_limited", ~reply_ok, FALSE)
       ELSE IF has_sensitive THEN Ended(limit.um, "sensitive", ~reply_ok, FALSE)
       ELSE IF m = "greeting"
       THEN Ended(SetStatus(store_message(stored_um, user_id, "bot", "quick_response", now),
                            user_id, "idle", now),
                  "simple", ~reply_ok, TRUE)
       ELSE IF m = "recommend"
       THEN Suspended(SetStatus(stored_um, user_id, "processing", now),
                      "recommend_related_sutras")
       ELSE IF ~push_ok THEN Ended(stored_um, "push_failed", TRUE, TRUE)
       ELSE Suspended(SetStatus(stored_um, user_id, "processing", now), "generate_response")

\* handle_text_message from its start to its end or its first suspension,
\* lines 249-629.  push_ok, reply_ok and error_reply_ok say whether the
\* push_message call, the reply_message call and the reply_message call of
\* an except block return; a call that does not return raises.
Handle(um, user_id, m, now, push_ok, reply_ok, error_reply_ok) ==
    LET try_raised == ~reply_ok /\ ~error_reply_ok
    IN CASE m = "clear_history" -> Ended(um, "confirm_prompt", try_raised, FALSE)
         [] m = "confirm_clear" ->
              Ended(clear_chat_history(SetStatus(um, user_id, "idle", now), user_id, now),
                    "cleared", try_raised, FALSE)
         [] m = "cancel_clear" -> Ended(um, "cancelled", ~reply_ok, FALSE)
         [] m = "news" ->
              IF push_ok
              THEN Suspended(SetStatus(um, user_id, "processing", now), "get_formatted_news")
              ELSE Ended(SetStatus(um, user_id, "idle", now), "news", ~error_reply_ok, TRUE)
         [] m \in {"usage", "meditation"} ->
              Ended(store_message(um, user_id, "assistant", m, now), "guide", try_raised, FALSE)
         [] OTHER -> HandleQuestion(um, user_id, m, now, push_ok, reply_ok)

\* handle_text_message from the return of the awaited call to its end:
\* lines 393-421, 585-618 and 636-659, the finally blocks included
Resume(um, user_id, callee, now, reply_ok, error_reply_ok) ==
    LET answered == IF callee = "recommend_related_sutras" THEN um
                    ELSE store_message(um, user_id, "assistant", callee, now)
    IN Ended(SetStatus(answered, user_id, "idle", now), callee,
             ~reply_ok /\ ~error_reply_ok, TRUE)

\* what the user's history and status are to a caller of UserManager
HistoryOf(storage, user_id) == EntryOf(storage, user_id).chat_history

StatusOf(statuses, user_id, now) ==
    get_user_status([storage |-> <<>>, statuses |-> statuses], user_id, now).value

Event(t, user_id, m, step) ==
    [name |-> "handle_text_message", task |-> t, user |-> user_id, message |-> m,
     pc |-> step.pc, verdict |-> step.verdict,
     set_processing |-> step.set_processing,
     history_before |-> HistoryOf(local_storage, user_id),
     timestamps_before |-> EntryOf(local_storage, user_id).request_timestamps,
     status_before |-> StatusOf(user_status, user_id, clock),
     stored_status_before |-> IF user_id \in DOMAIN user_status
                              THEN user_status[user_id].status ELSE "idle"]

\* message_text, lines 661-666, and the task it creates, up to the task's
\* first suspension
HandleTextMessage(t) ==
    /\ tasks[t].pc = "none" /\ \A t2 \in 1..(t - 1) : tasks[t2].pc # "none"
    /\ \E user_id \in Senders, m \in Messages,
          push_ok \in BOOLEAN, reply_ok \in BOOLEAN, error_reply_ok \in BOOLEAN :
          LET step == Handle([storage |-> local_storage, statuses |-> user_status],
                             user_id, m, clock, push_ok, reply_ok, error_reply_ok)
          IN /\ local_storage' = step.um.storage
             /\ user_status' = step.um.statuses
             /\ tasks' = [tasks EXCEPT ![t] = [pc |-> step.pc, user |-> user_id, message |-> m]]
             /\ last_event' = Event(t, user_id, m, step)
    /\ UNCHANGED <<retrievalVars, statelessVars, clock, um_call, stored, rate_log>>

\* the awaited call of a suspended task returns and the task runs to its end
TaskResumes(t) ==
    /\ tasks[t].pc \in {"get_formatted_news", "recommend_related_sutras", "generate_response"}
    /\ \E reply_ok \in BOOLEAN, error_reply_ok \in BOOLEAN :
          LET step == Resume([storage |-> local_storage, statuses |-> user_status],
                             tasks[t].user, tasks[t].pc, clock, reply_ok, error_reply_ok)
          IN /\ local_storage' = step.um.storage
             /\ user_status' = step.um.statuses
             /\ tasks' = [tasks EXCEPT ![t].pc = "ended"]
             /\ last_event' = Event(t, tasks[t].user, tasks[t].message, step)
    /\ UNCHANGED <<retrievalVars, statelessVars, clock, um_call, stored, rate_log>>

\* more than five minutes pass
StatusTimeoutPasses ==
    /\ clock = 0 /\ clock' = StatusTimeoutTicks + 1
    /\ last_event' = [name |-> "time_passes"]
    /\ UNCHANGED <<retrievalVars, statelessVars, tasks, local_storage, user_status,
                   um_call, stored, rate_log>>

----------------------------------------------------------------------------
(* SutraRecommender.  A Python value carries its type in the field py: a   *)
(* sutra id is a str, the information about a sutra is a dict.             *)

Str(x) == [py |-> "str", value |-> x]

PyNone == [py |-> "None"]

\* sutra_categories, lines 19-27, in the order of the dict
sutra_categories ==
    << <<"T0235", "T0251", "T0220">>, <<"T0366", "T0360">>,
       <<"T2008", "T2005", "X1001">>, <<"T1585", "T1579", "T1586">>,
       <<"T1564", "T1568">>, <<"T1428", "T1484">>, <<"T1911", "T1956">> >>

\* the keys of sutra_info, lines 30-53
sutra_info ==
    {"T0235", "T0251", "T0366", "T0360", "T0262", "T0945", "T0293", "T0412",
     "T0449", "T2008", "T1911", "T1585", "T1579", "T1586", "T1564", "T2005",
     "X1001", "T1956", "T1484", "T1428", "T1568", "T0220"}

\* _determine_user_level, lines 126-159; a query is the set of the kinds of
\* keyword it contains
_determine_user_level(query) ==
    IF "advanced" \in query THEN "advanced"
    ELSE IF "intermediate" \in query THEN "intermediate"
    ELSE "beginner"

beginner_sutras == {"T0235", "T0251", "T0293", "T0366", "T0412"}

intermediate_sutras == {"T0262", "T0945", "T0449", "T2008"}

\* _is_suitable_for_level, lines 161-173
_is_suitable_for_level(sutra_id, user_level) ==
    IF user_level = "beginner" THEN sutra_id \in beginner_sutras
    ELSE IF user_level = "intermediate"
         THEN sutra_id \in beginner_sutras \/ sutra_id \in intermediate_sutras
    ELSE TRUE

\* _get_sutra_info, lines 274-286: a dict, or None
_get_sutra_info(sutra_id) ==
    IF sutra_id \in sutra_info THEN [py |-> "dict", id |-> sutra_id] ELSE PyNone

\* _format_recommendation, lines 225-245: self.sutra_info.get(sutra_id)
\* raises TypeError for a key that cannot be hashed
_format_recommendation(arg) ==
    IF arg.py = "dict" THEN Raise("TypeError")
    ELSE IF arg.py = "str" /\ arg.value \in sutra_info
         THEN Return([py |-> "dict", id |-> arg.value])
    ELSE Return(PyNone)

FourDefaultSutras == <<"T0235", "T0251", "T0293", "T0366">>

\* line 291
default_sutras == <<"T0235", "T0251", "T0293">>

\* _get_default_recommendations, lines 288-298
RECURSIVE FormatAll(_)
FormatAll(args) ==
    IF args = <<>> THEN Return(<<>>)
    ELSE LET first == _format_recommendation(Head(args))
             rest == FormatAll(Tail(args))
         IN IF first.kind = "raise" THEN first
            ELSE IF rest.kind = "raise" THEN rest
            ELSE IF first.value = PyNone THEN rest
            ELSE Return(<<first.value>> \o rest.value)

_get_default_recommendations ==
    FormatAll([j \in 1..Len(default_sutras) |-> Str(default_sutras[j])]).value

\* _get_sutra_category, lines 210-223: 0 stands for None
_get_sutra_category(sutra_id) ==
    LET found == {c \in 1..Len(sutra_categories) : sutra_id \in Range(sutra_categories[c])}
    IN IF found = {} THEN 0 ELSE CHOOSE c \in found : \A d \in found : c <= d

\* lines 77-88: the sutras of the category that are kept
RECURSIVE CategoryCandidates(_, _, _)
CategoryCandidates(ids, mentioned_sutra_id, user_level) ==
    IF ids = <<>> THEN <<>>
    ELSE LET rest == CategoryCandidates(Tail(ids), mentioned_sutra_id, user_level)
             info == _get_sutra_info(Head(ids))
         IN IF Head(ids) = mentioned_sutra_id THEN rest
            ELSE IF ~_is_suitable_for_level(Head(ids), user_level) THEN rest
            ELSE IF info = PyNone THEN rest
            ELSE <<info>> \o rest

\* random.shuffle: any order
Shuffles(seq) ==
    { [j \in 1..Len(seq) |-> seq[p[j]]] :
        p \in {q \in [1..Len(seq) -> 1..Len(seq)] : \A a, b \in 1..Len(seq) : a # b => q[a] # q[b]} }

\* the key sutras of _get_base_recommendations, lines 179-201
key_sutras(user_level) ==
    IF user_level = "beginner" THEN <<"T0235", "T0293">>
    ELSE IF user_level = "intermediate" THEN <<"T0945", "T0412">>
    ELSE <<"T0262", "T1911">>

RECURSIVE InfosOf(_)
InfosOf(ids) ==
    IF ids = <<>> THEN <<>>
    ELSE LET info == _get_sutra_info(Head(ids))
         IN IF info = PyNone THEN InfosOf(Tail(ids)) ELSE <<info>> \o InfosOf(Tail(ids))

RecIds(recs) == {recs[j].id : j \in 1..Len(recs)}

\* lines 99-101 and 106-110: append the new ones that are not the mentioned
\* sutra, until the list holds stop_at
RECURSIVE AppendRecs(_, _, _, _)
AppendRecs(recommendations, new, mentioned_sutra_id, stop_at) ==
    IF new = <<>> THEN recommendations
    ELSE IF Head(new).id \notin RecIds(recommendations) /\ Head(new).id # mentioned_sutra_id
         THEN LET longer == Append(recommendations, Head(new))
              IN IF Len(longer) >= stop_at THEN longer
                 ELSE AppendRecs(longer, Tail(new), mentioned_sutra_id, stop_at)
    ELSE AppendRecs(recommendations, Tail(new), mentioned_sutra_id, stop_at)

\* _get_query_based_recommendations, lines 247-272, from the sutra ids of
\* the passages query_sutra returned
RECURSIVE QueryRecs(_, _, _)
QueryRecs(query_results, user_level, recommendations) ==
    IF query_results = <<>> THEN recommendations
    ELSE LET sutra_id == Head(query_results)
             info == _get_sutra_info(sutra_id)
         IN IF ~_is_suitable_for_level(sutra_id, user_level)
               \/ info = PyNone \/ sutra_id \in RecIds(recommendations)
            THEN QueryRecs(Tail(query_results), user_level, recommendations)
            ELSE QueryRecs(Tail(query_results), user_level, Append(recommendations, info))

\* lines 121-124
RecommendExcept(r) == IF r.kind = "raise" THEN Return(_get_default_recommendations) ELSE r

----------------------------------------------------------------------------
(* SutraRetriever.query_sutra, one action per await *)

InitRetrieval ==
    /\ rerank_available \in BOOLEAN
    /\ embeddings \in {"None"} \cup EmbeddingModels
    /\ hash_seed \in HashSeeds
    /\ op = "none" /\ pc = "idle" /\ user_query = <<>> /\ top_k = 0
    /\ use_rerank = FALSE /\ use_hybrid = FALSE /\ store = {}
    /\ candidates = <<>> /\ result = NoResult
    /\ filter_sutra = "None" /\ search_filter = <<>> /\ sutra_index = 0
    /\ default_results = <<>> /\ all_results = <<>>
    /\ searched = {} /\ any_hit = FALSE
    /\ vector_results = <<>> /\ search_results = <<>> /\ scores = <<>>
    /\ fake_returns = <<>>
    /\ np_random = Unseeded

\* UserManager.__init__, lines 17-41: nothing stored, no status
InitUserManager ==
    /\ local_storage = <<>> /\ user_status = <<>>
    /\ um_call = [name |-> "none"]
    /\ stored = [u \in Users |-> <<>>]
    /\ rate_log = [u \in Users |-> NoCalls]

NoCall == [name |-> "none"]

Init == InitRetrieval /\ InitUserManager /\ clock = 0 /\ rec_call = NoCall /\ vs_call = NoCall /\ rr_call = NoCall /\ InitWeb

\* the locals of a call that has not started or has returned
NoQueryLocals ==
    /\ filter_sutra' = "None" /\ search_filter' = <<>> /\ sutra_index' = 0
    /\ default_results' = <<>> /\ all_results' = <<>>
    /\ searched' = {} /\ any_hit' = FALSE

NoSearchLocals ==
    /\ vector_results' = <<>> /\ search_results' = <<>> /\ scores' = <<>>

QuerySutraStart ==
    /\ op = "none"
    /\ \E q \in Queries, f \in FilterSutras, k \in TopKs,
          r \in BOOLEAN, h \in BOOLEAN, S \in Stores :
          /\ user_query' = q /\ filter_sutra' = f /\ top_k' = k
          /\ use_rerank' = r /\ use_hybrid' = h /\ store' = S
          /\ search_filter' = SearchFilter(f)
    /\ op' = "query_sutra" /\ pc' = "default" /\ sutra_index' = 1
    /\ default_results' = <<>> /\ all_results' = <<>> /\ candidates' = <<>>
    /\ searched' = {} /\ any_hit' = FALSE /\ result' = NoResult
    /\ UNCHANGED <<serviceVars, np_random, cfgVars, sbqVars, fake_returns>>

\* the ranking step and the return, with the handler of lines 237-239
Ranked(rs) == RankResults(rs, top_k, rerank_available, use_rerank, use_hybrid)

SearchDefaultSutra ==
    /\ op = "query_sutra" /\ pc = "default"
    /\ searched' = searched \cup {"default"}
    /\ \E outcome \in SearchOutcomes :
          IF TrySearch(outcome, store, top_k).kind = "raise"
          THEN /\ result' = QueryExcept(TrySearch(outcome, store, top_k))
               /\ pc' = "done"
               /\ UNCHANGED <<default_results, any_hit, sutra_index, candidates>>
          ELSE
          LET sutra_results == GuardedSearch(outcome, store, top_k)
              new == default_results \o MarkCustom(sutra_results, FALSE)
          IN /\ default_results' = new
             /\ any_hit' = (any_hit \/ sutra_results # <<>>)
             /\ IF sutra_index < NumDefaultSutras
                THEN /\ sutra_index' = sutra_index + 1
                     /\ UNCHANGED <<pc, candidates, result>>
                ELSE /\ sutra_index' = sutra_index
                     /\ IF EnoughDefaults(new, top_k)
                        THEN /\ candidates' = new
                             /\ result' = QueryExcept(Ranked(new))
                             /\ pc' = "done"
                        ELSE /\ pc' = "cbeta"
                             /\ UNCHANGED <<candidates, result>>
    /\ UNCHANGED <<serviceVars, np_random, cfgVars, op, user_query, top_k, use_rerank, use_hybrid, store,
                   filter_sutra, search_filter, all_results, sbqVars, fake_returns>>

SearchCbeta ==
    /\ op = "query_sutra" /\ pc = "cbeta"
    /\ \E outcome \in SearchOutcomes :
          IF TrySearch(outcome, store, top_k).kind = "raise"
          THEN /\ result' = QueryExcept(TrySearch(outcome, store, top_k))
               /\ pc' = "done"
               /\ UNCHANGED <<all_results, any_hit>>
          ELSE
          LET cbeta_results == GuardedSearch(outcome, store, top_k)
              results == MarkCustom(cbeta_results, FALSE)
          IN /\ all_results' = WithFallback(default_results \o results)
             /\ any_hit' = (any_hit \/ cbeta_results # <<>>)
             /\ pc' = "custom"
             /\ UNCHANGED result
    /\ searched' = searched \cup {"cbeta"}
    /\ UNCHANGED <<serviceVars, np_random, cfgVars, op, user_query, top_k, use_rerank, use_hybrid, store,
                   candidates, filter_sutra, search_filter, sutra_index,
                   default_results, sbqVars, fake_returns>>

SearchCustom ==
    /\ op = "query_sutra" /\ pc = "custom"
    /\ \E outcome \in SearchOutcomes :
          IF TrySearch(outcome, store, top_k).kind = "raise"
          THEN /\ result' = QueryExcept(TrySearch(outcome, store, top_k))
               /\ UNCHANGED <<all_results, any_hit, candidates>>
          ELSE
          LET custom_results == GuardedSearch(outcome, store, top_k)
              merged == all_results \o MarkCustom(custom_results, TRUE)
              unique_results == UniqueResults(merged)
          IN /\ all_results' = merged
             /\ any_hit' = (any_hit \/ custom_results # <<>>)
             /\ candidates' = unique_results
             /\ result' = QueryExcept(Ranked(unique_results))
    /\ searched' = searched \cup {"custom"}
    /\ pc' = "done"
    /\ UNCHANGED <<serviceVars, np_random, cfgVars, op, user_query, top_k, use_rerank, use_hybrid, store,
                   filter_sutra, search_filter, sutra_index, default_results,
                   sbqVars, fake_returns>>

----------------------------------------------------------------------------
(* SutraRetriever.search_by_query *)

\* _vector_search, lines 424-479.  The store call of line 442 answers,
\* raises AttributeError (VectorStore has no such method) or raises something
\* else; after AttributeError the call search(query, limit=limit) of line 452
\* raises, or answers with dicts that carry content and distance, or with
\* dicts shaped as VectorStore.search returns them (text and relevance).
VectorOutcomes == {"results", "Exception", "alt_raise", "alt_content", "alt_vectorstore"}

ScoredDoc(d, text, score) ==
    [id |-> d, text |-> text, sutra_id |-> DocSutraId(d), score |-> score]

_vector_search(outcome, emb, S, limit) ==
    LET near == SubSeq(Nearest(S), 1, Min(limit, Cardinality(S)))
    IN IF emb = "None" THEN <<>>
       ELSE CASE outcome = "results" ->
                   [j \in 1..Len(near) |->
                       ScoredDoc(near[j], DocText(near[j]), DocDistance(near[j]))]
              [] outcome = "alt_content" ->
                   [j \in 1..Len(near) |->
                       ScoredDoc(near[j], DocText(near[j]), One - DocDistance(near[j]))]
              [] outcome = "alt_vectorstore" ->
                   [j \in 1..Len(near) |-> ScoredDoc(near[j], <<>>, One - 0)]
              [] OTHER -> <<>>

\* jieba.analyse.extract_tags(query, topK=5): no keyword in an empty query
Keywords(query) == IF query = <<>> THEN <<>> ELSE <<query>>

\* line 509-511: the distance, or 0.5 without distances, inverted when > 0
KeywordScore(distance) == IF distance > 0 THEN (One * One) \div distance ELSE distance

\* what an instance of VectorStore has: the attributes __init__ sets and the
\* methods of the class (vector_store.py, lines 27-195)
VectorStoreAttributes ==
    {"vector_db_path", "embeddings", "embedding_available", "text_splitter",
     "vectorstore", "get_vectorstore", "add_texts", "search", "get_collection_stats"}

\* _keyword_search, lines 481-523.  The import of jieba raises; or the read
\* of self.vector_store._collection raises AttributeError; or the collection
\* search raises or answers, with or without distances.
KeywordOutcomes ==
    {"ImportError"} \cup
        IF "_collection" \in VectorStoreAttributes
        THEN {"raise", "distances", "no_distances"}
        ELSE {"AttributeError"}

_keyword_search(outcome, query, S, limit) ==
    LET near == SubSeq(Nearest(S), 1, Min(limit, Cardinality(S)))
    IN IF outcome = "ImportError" \/ Keywords(query) = <<>> THEN <<>>
       ELSE CASE outcome = "distances" ->
                   [j \in 1..Len(near) |->
                       ScoredDoc(near[j], DocText(near[j]),
                                 KeywordScore(DocDistance(near[j])))]
              [] outcome = "no_distances" ->
                   [j \in 1..Len(near) |->
                       ScoredDoc(near[j], DocText(near[j]), KeywordScore(One \div 2))]
              [] OTHER -> <<>>

\* lines 329-337: the keyword results whose id is new, after the vector ones
RECURSIVE AppendNew(_, _)
AppendNew(combined, docs) ==
    IF docs = <<>> THEN combined
    ELSE IF \E j \in 1..Len(combined) : combined[j].id = Head(docs).id
         THEN AppendNew(combined, Tail(docs))
         ELSE AppendNew(Append(combined, Head(docs)), Tail(docs))

Combine(vector, keyword, limit) == Take(AppendNew(vector, keyword), limit)

\* lines 364-365
AssignScores(docs, ss) ==
    [j \in 1..Len(docs) |->
        IF j <= Len(ss)
        THEN [id |-> docs[j].id, text |-> docs[j].text, sutra_id |-> docs[j].sutra_id,
              score |-> docs[j].score, rerank_score |-> ss[j]]
        ELSE docs[j]]

\* lines 377-411
RECURSIVE FormatItems(_)
FormatItems(items) ==
    IF items = <<>> THEN <<>>
    ELSE IF Head(items).text = <<>> THEN FormatItems(Tail(items))
    ELSE << [text |-> Head(items).text, sutra_id |-> Head(items).sutra_id,
             similarity |-> Head(items).score,
             rerank_score |-> IF "rerank_score" \in DOMAIN Head(items)
                              THEN <<Head(items).rerank_score>> ELSE <<>>] >>
         \o FormatItems(Tail(items))

FormatResults(reranked, limit) ==
    LET results == FormatItems(Take(reranked, limit))
    IN IF results = <<>> THEN _get_fallback_results ELSE results

SearchByQueryStart ==
    /\ op = "none"
    /\ \E q \in Queries, k \in Limits, r \in BOOLEAN, h \in BOOLEAN, S \in Stores :
          /\ user_query' = q /\ top_k' = k
          /\ use_rerank' = r /\ use_hybrid' = h /\ store' = S
    /\ op' = "search_by_query" /\ pc' = "vector"
    /\ candidates' = <<>> /\ result' = NoResult
    /\ NoSearchLocals
    /\ UNCHANGED <<serviceVars, np_random, cfgVars, qsVars, fake_returns>>

\* lines 347-375 up to the await of the reranker, and lines 377-416 without it
AfterSearch(found) ==
    /\ search_results' = found
    /\ candidates' = found
    /\ IF found = <<>>
       THEN result' = Return(_get_fallback_results) /\ pc' = "done"
       ELSE IF use_rerank
       THEN result' = result /\ pc' = "rerank"
       ELSE /\ result' = Return(FormatResults(SortDesc(found, "score"), top_k))
            /\ pc' = "done"

VectorLeg ==
    /\ op = "search_by_query" /\ pc = "vector"
    /\ \E outcome \in VectorOutcomes :
          LET found == _vector_search(outcome, embeddings, store, top_k)
          IN /\ vector_results' = found
             /\ IF use_hybrid
                THEN /\ pc' = "keyword"
                     /\ UNCHANGED <<search_results, candidates, result>>
                ELSE AfterSearch(found)
    /\ UNCHANGED <<serviceVars, np_random, cfgVars, op, user_query, top_k, use_rerank, use_hybrid, store,
                   qsVars, scores, fake_returns>>

KeywordLeg ==
    /\ op = "search_by_query" /\ pc = "keyword"
    /\ \E outcome \in KeywordOutcomes :
          LET keyword_results == _keyword_search(outcome, user_query, store, top_k)
          IN AfterSearch(Combine(vector_results, keyword_results, top_k))
    /\ UNCHANGED <<serviceVars, np_random, cfgVars, op, user_query, top_k, use_rerank, use_hybrid, store,
                   qsVars, vector_results, scores, fake_returns>>

\* lines 355-372 and 377-416.  The import of the Reranker may fail; each
\* get_embedding call of Reranker.rerank has its own outcome.
RerankResults ==
    /\ op = "search_by_query" /\ pc = "rerank"
    /\ \E imported \in BOOLEAN,
          outcomes \in [1..(Len(search_results) + 1) -> BackendOutcomes(embeddings)] :
          LET texts == [j \in 1..Len(search_results) |-> search_results[j].text]
              query_embedding ==
                  get_embedding(user_query, embeddings, hash_seed, outcomes[1]).value
              text_embeddings ==
                  [j \in 1..Len(texts) |->
                      get_embedding(texts[j], embeddings, hash_seed, outcomes[j + 1]).value]
              ss == rerank(texts, query_embedding, text_embeddings)
          IN IF imported
             THEN /\ scores' = ss
                  /\ result' = Return(FormatResults(
                         SortDesc(AssignScores(search_results, ss), "rerank_score"), top_k))
                  /\ np_random' = GeneratorAfter(np_random,
                         \E j \in DOMAIN outcomes : FellBack(embeddings, outcomes[j]),
                         hash_seed)
             ELSE /\ scores' = <<>>
                  /\ result' = Return(FormatResults(SortDesc(search_results, "score"), top_k))
                  /\ np_random' = np_random
    /\ pc' = "done"
    /\ UNCHANGED <<serviceVars, cfgVars, op, user_query, top_k, use_rerank, use_hybrid, store,
                   candidates, qsVars, vector_results, search_results, fake_returns>>

NextSearchByQuery == SearchByQueryStart \/ VectorLeg \/ KeywordLeg \/ RerankResults

\* the caller takes the result; the call's locals are dropped
Finish ==
    /\ op # "none" /\ pc = "done"
    /\ op' = "none" /\ pc' = "idle" /\ user_query' = <<>> /\ top_k' = 0
    /\ use_rerank' = FALSE /\ use_hybrid' = FALSE /\ store' = {}
    /\ candidates' = <<>> /\ result' = NoResult
    /\ NoQueryLocals /\ NoSearchLocals
    /\ UNCHANGED <<serviceVars, np_random, cfgVars, fake_returns>>

NextQuerySutra == QuerySutraStart \/ SearchDefaultSutra \/ SearchCbeta \/ SearchCustom

Next == NextQuerySutra \/ NextSearchByQuery \/ Finish

\* both retrieval operations, with and without a reranker and an embedding
\* backend; the seed of the fallback vector enters no branch of either
\* operation, SpecSearch and SpecEmbed range over it
InitRetriever == Init /\ hash_seed = 0

Spec == InitRetriever /\ [][Next]_vars

\* query_sutra alone; it reads neither the embedding service nor its seed
InitQuery == Init /\ embeddings = "None" /\ hash_seed = 0

NextQuery == NextQuerySutra \/ Finish

SpecQuery == InitQuery /\ [][NextQuery]_vars

\* search_by_query alone; it does not read rerank_available
InitSearch == Init /\ rerank_available = TRUE

NextSearch == NextSearchByQuery \/ Finish

SpecSearch == InitSearch /\ [][NextSearch]_vars

----------------------------------------------------------------------------
(* EmbeddingService.get_embedding called on its own, lines 54-69 *)

Texts == {<<>>, <<"q">>, <<"q", "q">>}

GetEmbedding ==
    /\ op = "none" /\ Len(fake_returns) < MaxFakeCalls
    /\ \E text \in Texts, outcome \in BackendOutcomes(embeddings) :
          LET r == get_embedding(text, embeddings, hash_seed, outcome)
          IN /\ user_query' = text
             /\ result' = r
             /\ fake_returns' =
                   IF FellBack(embeddings, outcome)
                   THEN Append(fake_returns, [text |-> text, vector |-> r.value,
                                              logged |-> FallbackLog(embeddings, outcome)])
                   ELSE fake_returns
             /\ np_random' = GeneratorAfter(np_random, FellBack(embeddings, outcome), hash_seed)
    /\ op' = "get_embedding" /\ pc' = "done"
    /\ UNCHANGED <<serviceVars, cfgVars, top_k, use_rerank, use_hybrid, store, candidates,
                   qsVars, sbqVars>>

InitEmbed == Init /\ rerank_available = TRUE

NextEmbed == GetEmbedding \/ Finish

SpecEmbed == InitEmbed /\ [][NextEmbed]_vars

----------------------------------------------------------------------------
(* The ranking step of query_sutra, lines 222-239, on a given candidate    *)
(* list: candidate j has the j-th highest relevance and comes from sutra   *)
(* A or sutra B.                                                           *)

Candidate(j, sutra) ==
    [text |-> <<"c">> \o Rep("x", j), relevance |-> One - 10 * j,
     sutra_id |-> sutra, custom_document |-> FALSE]

CandidateLists ==
    UNION { { [j \in 1..n |-> Candidate(j, src[j])] : src \in [1..n -> {<<"A">>, <<"B">>}] }
            : n \in 1..MaxCandidates }

RankCandidates ==
    /\ op = "none"
    /\ \E cs \in CandidateLists, k \in TopKs, r \in BOOLEAN, h \in BOOLEAN :
          /\ candidates' = cs /\ top_k' = k /\ use_rerank' = r /\ use_hybrid' = h
          /\ result' = QueryExcept(RankResults(cs, k, rerank_available, r, h))
    /\ op' = "rank" /\ pc' = "done"
    /\ UNCHANGED <<serviceVars, np_random, cfgVars, user_query, store, qsVars, sbqVars, fake_returns>>

NextRank == RankCandidates \/ Finish

SpecRank == InitQuery /\ [][NextRank]_vars

----------------------------------------------------------------------------
(* UserManager operations; each call runs without yielding *)

\* check_rate_limit, lines 185-229
CheckRateLimit(user_id) ==
    LET entry == EntryOf(local_storage, user_id)
        kept == TimestampsAfterCheck(entry.request_timestamps, clock)
        allowed == WithinLimit(Len(kept))
        log == rate_log[user_id]
    IN /\ local_storage' =
             (user_id :> [entry EXCEPT !.request_timestamps = kept]) @@ local_storage
       /\ um_call' = [name |-> "check_rate_limit", user |-> user_id, value |-> allowed]
       /\ rate_log' = [rate_log EXCEPT ![user_id] =
             [calls |-> log.calls + 1,
              first |-> IF log.calls = 0 THEN clock ELSE log.first,
              last |-> clock, allowed |-> allowed,
              seconds |-> Append(log.seconds, IntTime(clock))]]
       /\ UNCHANGED <<retrievalVars, webVars, statelessVars, user_status, clock, stored>>

\* time passes
ClockSteps == {WindowTicks - 1, WindowTicks}

MaxClock == WindowTicks + TicksPerSecond - 1

AdvanceClock ==
    /\ \E d \in ClockSteps : clock + d <= MaxClock /\ clock' = clock + d
    /\ UNCHANGED <<retrievalVars, webVars, statelessVars, local_storage, user_status, um_call, stored, rate_log>>

\* store_message, lines 94-139
StoreMessage(user_id, role, content) ==
    LET entry == EntryOf(local_storage, user_id)
        message == [role |-> role, content |-> content, timestamp |-> clock]
    IN /\ Len(stored[user_id]) < MaxStored
       /\ local_storage' =
             (user_id :> [entry EXCEPT !.chat_history = AppendMessage(@, message)])
                 @@ local_storage
       /\ user_status' = StatusAfterStore(user_status, user_id, role, clock)
       /\ um_call' = [name |-> "store_message", user |-> user_id, value |-> TRUE]
       /\ stored' = [stored EXCEPT ![user_id] = Append(@, message)]
       /\ UNCHANGED <<retrievalVars, webVars, statelessVars, clock, rate_log>>

\* get_chat_history, lines 141-159
GetChatHistory(user_id) ==
    /\ um_call' = [name |-> "get_chat_history", user |-> user_id,
                   value |-> IF user_id \in DOMAIN local_storage
                             THEN local_storage[user_id].chat_history ELSE <<>>]
    /\ UNCHANGED <<retrievalVars, webVars, statelessVars, local_storage, user_status, clock, stored, rate_log>>

\* clear_chat_history, lines 161-183
ClearChatHistory(user_id) ==
    /\ local_storage' =
          IF user_id \in DOMAIN local_storage
          THEN [local_storage EXCEPT ![user_id].chat_history = <<>>]
          ELSE local_storage
    /\ user_status' = (user_id :> StatusEntry("idle", clock)) @@ user_status
    /\ um_call' = [name |-> "clear_chat_history", user |-> user_id, value |-> TRUE]
    /\ stored' = [stored EXCEPT ![user_id] = <<>>]
    /\ UNCHANGED <<retrievalVars, webVars, statelessVars, clock, rate_log>>

InitUsers ==
    /\ InitRetrieval /\ rerank_available /\ embeddings = "None" /\ hash_seed = 0
    /\ InitUserManager /\ rec_call = NoCall /\ vs_call = NoCall /\ rr_call = NoCall /\ InitWeb

\* the rate limiter; the service starts at any phase of a second
InitRate == InitUsers /\ clock \in 0..(TicksPerSecond - 1)

NextRate ==
    \/ \E u \in Users : rate_log[u].calls <= max_requests /\ CheckRateLimit(u)
    \/ AdvanceClock

SpecRate == InitRate /\ [][NextRate]_vars

\* one user who goes on calling after being rejected, about the end of the
\* window of the first calls
MaxCalls == 2 * max_requests + 1

Tick ==
    /\ clock >= WindowTicks - 1 /\ clock < WindowTicks + TicksPerSecond
    /\ clock' = clock + 1
    /\ UNCHANGED <<retrievalVars, webVars, statelessVars, local_storage, user_status, um_call, stored, rate_log>>

NextRateLong ==
    \/ rate_log["u1"].calls < MaxCalls /\ CheckRateLimit("u1")
    \/ AdvanceClock
    \/ Tick

\* the chat history
InitHistory == InitUsers /\ clock = 0

NextHistory ==
    \/ \E u \in Users, role \in Roles, content \in Contents :
          content = Len(stored[u]) + 1 /\ StoreMessage(u, role, content)
    \/ \E u \in Users : GetChatHistory(u)
    \/ \E u \in Users : ClearChatHistory(u)

SpecHistory == InitHistory /\ [][NextHistory]_vars

SpecRateLong == InitHistory /\ [][NextRateLong]_vars

\* the sensitive-word filter
FilterSensitiveContent ==
    /\ \E content \in FilterContents :
          um_call' = [name |-> "filter_sensitive_content", content |-> content,
                      value |-> filter_sensitive_content(content)]
    /\ UNCHANGED <<retrievalVars, webVars, statelessVars, local_storage, user_status, clock, stored, rate_log>>

NextFilter == FilterSensitiveContent

SpecFilter == InitHistory /\ [][NextFilter]_vars

\* the webhook: each user has sent nine messages in the current second that
\* the sensitive-word filter turned down
InitWebhook ==
    /\ InitRetrieval /\ rerank_available /\ embeddings = "None" /\ hash_seed = 0
    /\ local_storage = [u \in Users |->
           [chat_history |-> <<>>,
            request_timestamps |-> [j \in 1..(max_requests - 1) |-> 0]]]
    /\ user_status = <<>> /\ clock = 0
    /\ um_call = NoCall /\ stored = [u \in Users |-> <<>>]
    /\ rate_log = [u \in Users |-> NoCalls]
    /\ rec_call = NoCall /\ vs_call = NoCall /\ rr_call = NoCall /\ InitWeb

NextWebhook ==
    \/ \E t \in TaskIds : HandleTextMessage(t)
    \/ \E t \in TaskIds : TaskResumes(t)
    \/ StatusTimeoutPasses

SpecWebhook == InitWebhook /\ [][NextWebhook]_vars

----------------------------------------------------------------------------
(* SutraRecommender.recommend_related_sutras, lines 57-124 *)

RecQueries == SUBSET {"advanced", "intermediate"}

MentionedIds == {"None", "T0235", "T0251", "T0293", "T2008", "T0945", "T9999"}

\* the sutra ids of the passages query_sutra(query, top_k=5) returns
QueryResultIds ==
    { <<>>, <<"T0945", "T0262", "T0235", "T2008">>, <<"T0251", "T9999", "T0366", "T0412">> }

RecommendRelatedSutras ==
    /\ \E query \in RecQueries, mentioned_sutra_id \in MentionedIds,
          query_results \in QueryResultIds :
          LET user_level == _determine_user_level(query)
              category == IF mentioned_sutra_id = "None" THEN 0
                          ELSE _get_sutra_category(mentioned_sutra_id)
              same_category ==
                  IF category = 0 THEN <<>>
                  ELSE CategoryCandidates(sutra_categories[category],
                                          mentioned_sutra_id, user_level)
              base == InfosOf(key_sutras(user_level))
          IN \E shuffled \in Shuffles(same_category), base_shuffled \in Shuffles(base) :
                LET with_base == AppendRecs(Take(shuffled, 2), Take(base_shuffled, 2),
                                            mentioned_sutra_id, Len(shuffled) + Len(base) + 1)
                    recommendations ==
                        IF Len(with_base) < 3
                        THEN AppendRecs(with_base, QueryRecs(query_results, user_level, <<>>),
                                        mentioned_sutra_id, 3)
                        ELSE with_base
                IN rec_call' = [name |-> "recommend_related_sutras",
                                query |-> query, query_results |-> query_results,
                                mentioned_sutra_id |-> mentioned_sutra_id,
                                recommendations |-> recommendations,
                                returned |-> RecommendExcept(FormatAll(Take(recommendations, 3)))]
    /\ UNCHANGED <<retrievalVars, webVars, userVars, vs_call, rr_call>>

NextRecommend == RecommendRelatedSutras

SpecRecommend == InitHistory /\ [][NextRecommend]_vars

----------------------------------------------------------------------------
(* VectorStore.search called on its own; the store has embeddings exactly  *)
(* when the API key that EmbeddingService reads is set                     *)

SearchVectorStore ==
    /\ \E open_outcome \in OpenOutcomes, outcome \in SimilarityOutcomes,
          S \in Stores, k \in TopKs :
          vs_call' = [name |-> "search", embedding_available |-> embeddings # "None",
                      open_outcome |-> open_outcome, outcome |-> outcome,
                      store |-> S, k |-> k,
                      returned |-> VectorStoreSearchCall(embeddings # "None",
                                                         open_outcome, outcome, S, k)]
    /\ UNCHANGED <<retrievalVars, webVars, userVars, rec_call, rr_call>>

\* Reranker.rerank(query, texts) called on its own, lines 32-70; each of its
\* get_embedding calls has its own outcome
TextLists == {<<>>} \cup {<<t>> : t \in Texts} \cup {<<t1, t2>> : t1 \in Texts, t2 \in Texts}

Rerank ==
    /\ \E query \in Queries, texts \in TextLists :
       \E outcomes \in [1..Len(EmbeddedTexts(query, texts)) -> BackendOutcomes(embeddings)] :
          LET embedded == EmbeddedTexts(query, texts)
              vectors == [j \in 1..Len(embedded) |->
                            get_embedding(embedded[j], embeddings, hash_seed, outcomes[j]).value]
              text_embeddings == [j \in 1..Len(texts) |-> vectors[j + 1]]
          IN rr_call' = [name |-> "rerank", query |-> query, texts |-> texts,
                         embedded |-> embedded,
                         returned |-> IF texts = <<>> THEN rerank(texts, <<>>, <<>>)
                                      ELSE rerank(texts, vectors[1], text_embeddings)]
             /\ np_random' = GeneratorAfter(np_random,
                    \E j \in DOMAIN outcomes : FellBack(embeddings, outcomes[j]), hash_seed)
    /\ UNCHANGED <<cfgVars, callVars, qsVars, sbqVars, fake_returns,
                   webVars, userVars, rec_call, vs_call>>

InitStore ==
    /\ InitRetrieval /\ rerank_available /\ hash_seed = 0
    /\ InitUserManager /\ clock = 0 /\ rec_call = NoCall /\ vs_call = NoCall /\ rr_call = NoCall /\ InitWeb

NextStore == SearchVectorStore

SpecStore == InitStore /\ [][NextStore]_vars

NextRerank == Rerank

SpecRerank == InitStore /\ [][NextRerank]_vars

----------------------------------------------------------------------------
(* Properties of query_sutra *)

QueryDone == op = "query_sutra" /\ pc = "done"

Returned == result.kind = "return"

SameSutraAndPrefix(r1, r2) ==
    /\ r1.sutra_id = r2.sutra_id
    /\ Take(r1.text, DedupPrefixLen) = Take(r2.text, DedupPrefixLen)

IsSortedDesc(rs, key) == \A j \in 1..(Len(rs) - 1) : rs[j][key] >= rs[j + 1][key]

\* C1: for top_k >= 1 the list query_sutra returns has at most top_k entries
C1_AtMostTopK ==
    (QueryDone /\ top_k >= 1) => (Returned /\ Len(result.value) <= top_k)

\* C2 as stated: query_sutra returns a non-empty list for any top_k
C2_AlwaysNonEmpty == QueryDone => (Returned /\ Len(result.value) > 0)

\* C2: for top_k >= 1 query_sutra returns a non-empty list, whatever the
\* collection searches did
C2_NonEmptyForPositiveTopK ==
    (QueryDone /\ top_k >= 1) => (Returned /\ Len(result.value) > 0)

C2_Witness ==
    /\ QueryDone /\ top_k >= 1 /\ ~any_hit /\ ~use_rerank
    /\ "custom" \in searched /\ Returned /\ Len(result.value) = top_k

\* C3: query_sutra and search_by_query end by returning a list, never by
\* raising
C3_NeverRaises == pc = "done" => Returned

C3_Witness ==
    /\ QueryDone /\ rerank_available /\ use_rerank /\ ~any_hit /\ user_query = <<>>
    /\ Returned

\* C4: no two entries of the list query_sutra returns have the same sutra_id
\* and the same first 50 characters of text
C4_NoDuplicates ==
    QueryDone =>
        \A i, j \in 1..Len(result.value) :
            i # j => ~SameSutraAndPrefix(result.value[i], result.value[j])

ClaimedFallbackIds ==
    { <<"T", "0", "9", "4", "5">>, <<"T", "0", "2", "6", "2">>,
      <<"T", "0", "2", "3", "5">>, <<"T", "2", "0", "0", "8">> }

\* C5 as stated: when every collection search fails or returns nothing,
\* query_sutra returns a non-empty list of fallback passages
C5_FallbackOnOutage ==
    (QueryDone /\ ~any_hit) =>
        /\ Returned /\ Len(result.value) > 0
        /\ \A j \in 1..Len(result.value) : result.value[j] \in Range(_get_fallback_results)

\* C5: the same for top_k >= 1
C5_FallbackOnOutagePositiveTopK ==
    (QueryDone /\ ~any_hit /\ top_k >= 1) =>
        /\ Returned /\ Len(result.value) > 0
        /\ \A j \in 1..Len(result.value) :
              /\ result.value[j] \in Range(_get_fallback_results)
              /\ result.value[j].sutra_id \in ClaimedFallbackIds

C5_Witness ==
    /\ QueryDone /\ ~any_hit /\ top_k >= 1 /\ searched = {"default", "cbeta", "custom"}
    /\ store # {} /\ Returned /\ result.value # <<>>

\* C6: when the reranker fails on a non-empty candidate set, the candidates
\* are returned, ordered by their similarity score, descending
C6_RerankFailureKeepsCandidates ==
    (QueryDone /\ use_rerank /\ rerank_available /\ candidates # <<>>) =>
        /\ Returned /\ result.value # <<>>
        /\ Range(result.value) \subseteq Range(candidates)
        /\ IsSortedDesc(result.value, "relevance")

\* C7: every relevance and score attached to a retrieved passage lies in
\* [0, 1]
C7_ScoresInUnitInterval ==
    /\ \A j \in 1..Len(default_results) :
          default_results[j].relevance >= 0 /\ default_results[j].relevance <= One
    /\ \A j \in 1..Len(all_results) :
          all_results[j].relevance >= 0 /\ all_results[j].relevance <= One
    /\ \A j \in 1..Len(search_results) :
          search_results[j].score >= 0 /\ search_results[j].score <= One

InUnit(x) == x >= 0 /\ x <= One

\* C8: every score Reranker.rerank returns, and every rerank_score
\* search_by_query attaches to a passage, lies in [0, 1]
C8_RerankScoresInUnitInterval ==
    /\ \A j \in 1..Len(scores) : InUnit(scores[j])
    /\ (op = "search_by_query" /\ pc = "done" /\ Returned) =>
          \A j \in 1..Len(result.value) :
              "rerank_score" \in DOMAIN result.value[j] =>
                  \A x \in Range(result.value[j].rerank_score) : InUnit(x)

C8_Witness ==
    /\ op = "search_by_query" /\ pc = "done" /\ Returned
    /\ \E i, j \in 1..Len(scores) : scores[i] = 0 /\ scores[j] = One
    /\ \E j \in 1..Len(result.value) :
          /\ "rerank_score" \in DOMAIN result.value[j]
          /\ result.value[j].rerank_score # <<>>

\* C9: in fallback mode get_embedding returns normally, and any two such
\* calls return the same vector of EmbeddingDim components
C9_FallbackIsOneVector ==
    /\ (op = "get_embedding" /\ pc = "done") => Returned
    /\ \A i, j \in 1..Len(fake_returns) :
          /\ fake_returns[i].vector = fake_returns[j].vector
          /\ Len(fake_returns[i].vector) = EmbeddingDim

C9_Witness ==
    /\ op = "get_embedding" /\ pc = "done" /\ Returned
    /\ embeddings # "None"
    /\ Len(fake_returns) = 2
    /\ fake_returns[1].text # fake_returns[2].text
    /\ result.value = fake_returns[2].vector

\* C10: from three sutra-A candidates with the highest scores and two
\* sutra-B candidates with lower ones, hybrid reranking with top_k = 3 returns
\* at least one sutra-B passage
C10_HybridKeepsSecondSource ==
    ( /\ op = "rank" /\ pc = "done"
      /\ rerank_available /\ use_rerank /\ use_hybrid /\ top_k = 3
      /\ Len(candidates) = 5
      /\ \A j \in 1..3 : candidates[j].sutra_id = <<"A">>
      /\ \A j \in 4..5 : candidates[j].sutra_id = <<"B">> )
    => ( /\ Returned
         /\ \E j \in 1..Len(result.value) : result.value[j].sutra_id = <<"B">> )

----------------------------------------------------------------------------
(* Properties of UserManager *)

\* C11 as stated: while the last check_rate_limit call of a user is less than
\* 60 seconds after the user's first, it returned True exactly when it was
\* one of the first max_requests calls
C11_FirstTenThenRejected ==
    \A u \in Users :
        (rate_log[u].calls > 0 /\ rate_log[u].last - rate_log[u].first < WindowTicks)
            => (rate_log[u].allowed <=> rate_log[u].calls <= max_requests)

\* C11: the same with the window measured on the whole-second timestamps
\* check_rate_limit stores
C11_FirstTenThenRejectedWholeSeconds ==
    \A u \in Users :
        ( /\ rate_log[u].calls > 0
          /\ IntTime(rate_log[u].last) - IntTime(rate_log[u].first) < window_seconds )
            => (rate_log[u].allowed <=> rate_log[u].calls <= max_requests)

C11_Witness ==
    \E u \in Users :
        /\ um_call = [name |-> "check_rate_limit", user |-> u, value |-> FALSE]
        /\ rate_log[u].calls = max_requests + 1
        /\ IntTime(rate_log[u].last) - IntTime(rate_log[u].first) < window_seconds
        /\ rate_log[u].last > rate_log[u].first

\* C12: get_chat_history returns the messages stored since the last clear, in
\* the order they were stored, while they are fewer than the cap of
\* 2 * HISTORY_LIMIT; clear_chat_history returns True and leaves the history
\* empty
C12_HistoryRoundTrip ==
    /\ (um_call.name = "get_chat_history"
          /\ Len(stored[um_call.user]) < 2 * HISTORY_LIMIT)
            => um_call.value = stored[um_call.user]
    /\ um_call.name = "clear_chat_history"
            => /\ um_call.value = TRUE
               /\ EntryOf(local_storage, um_call.user).chat_history = <<>>

C12_Witness ==
    /\ um_call.name = "get_chat_history"
    /\ Len(um_call.value) = 2
    /\ um_call.value[1].role = "user" /\ um_call.value[2].role = "assistant"
    /\ um_call.value[1].content # um_call.value[2].content
    /\ \E u \in Users : stored[u] # stored[um_call.user] /\ stored[u] # <<>>

\* the positions of content that lie inside an occurrence of a sensitive word
SensitivePositions(content) ==
    {i \in 1..Len(content) :
        \E k \in 1..Len(sensitive_words) :
            \E j \in 1..(Len(content) - Len(sensitive_words[k]) + 1) :
                /\ SubSeq(content, j, j + Len(sensitive_words[k]) - 1) = sensitive_words[k]
                /\ j <= i /\ i < j + Len(sensitive_words[k])}

\* C13: filter_sensitive_content returns (False, content) for a content
\* without sensitive words, and otherwise (True, filtered) where every
\* character inside an occurrence of a sensitive word is an asterisk and
\* every other character is kept
C13_EveryOccurrenceMasked ==
    um_call.name = "filter_sensitive_content" =>
        LET content == um_call.content
            masked == SensitivePositions(content)
        IN um_call.value =
             << masked # {},
                [i \in 1..Len(content) |-> IF i \in masked THEN "*" ELSE content[i]] >>

----------------------------------------------------------------------------
(* Properties of SutraRecommender *)

\* C14: recommend_related_sutras returns a list of at most 3 items
C14_AtMostThree ==
    rec_call.name = "recommend_related_sutras" =>
        rec_call.returned.kind = "return" /\ Len(rec_call.returned.value) <= 3

C14_Witness ==
    /\ rec_call.name = "recommend_related_sutras"
    /\ rec_call.mentioned_sutra_id = "T2008"
    /\ Len(rec_call.recommendations) >= 3
    /\ rec_call.returned.kind = "return" /\ Len(rec_call.returned.value) = 3

\* C15: no item recommend_related_sutras returns has the id of the mentioned
\* sutra
C15_MentionedNotRecommended ==
    (rec_call.name = "recommend_related_sutras" /\ rec_call.returned.kind = "return") =>
        \A j \in 1..Len(rec_call.returned.value) :
            rec_call.returned.value[j].id # rec_call.mentioned_sutra_id

----------------------------------------------------------------------------
(* Properties of VectorStore *)

\* C16: VectorStore.search returns, and it returns the empty list when the
\* embedding backend is degraded, the collection cannot be opened, the
\* collection is empty or the similarity search throws
C16_SearchNeverRaises ==
    vs_call.name = "search" =>
        /\ vs_call.returned.kind = "return"
        /\ ( \/ ~vs_call.embedding_available
             \/ vs_call.open_outcome = "raise"
             \/ vs_call.store = {}
             \/ vs_call.outcome = "raise" ) => vs_call.returned.value = <<>>

C16_Witness ==
    /\ vs_call.name = "search" /\ vs_call.embedding_available
    /\ vs_call.open_outcome = "opened" /\ vs_call.outcome = "raise"
    /\ vs_call.store # {} /\ vs_call.k > 0
    /\ vs_call.returned = Return(<<>>)

----------------------------------------------------------------------------
(* Properties of the search legs of SutraRetriever *)

\* C17: with use_hybrid set and the embedding service unavailable,
\* search_by_query for a query with keywords over a store that holds
\* passages returns passages of the store, not the static fallback set
C17_KeywordSearchAvailable ==
    ( /\ op = "search_by_query" /\ pc = "done"
      /\ use_hybrid /\ embeddings = "None"
      /\ Keywords(user_query) # <<>> /\ store # {} /\ top_k >= 1 )
    => ( /\ Returned /\ result.value # <<>>
         /\ vector_results = <<>>
         /\ \A j \in 1..Len(result.value) :
               /\ result.value[j] \notin Range(_get_fallback_results)
               /\ \E d \in store : result.value[j].text = DocText(d) )

----------------------------------------------------------------------------
(* query_sutra: which collections one query searches *)

\* C18 as stated: every finished query_sutra has searched the user
\* documents, also when the default-sutra searches already returned at
\* least top_k results.
C18_UserDocumentsAlwaysSearched ==
    QueryDone => "custom" \in searched

\* C19: a finished query_sutra has issued the full-corpus search exactly
\* when its default-sutra searches together returned fewer than top_k
\* results.
C19_CbetaIffTooFewDefaults ==
    QueryDone => (("cbeta" \in searched) <=> (Len(default_results) < top_k))

C19_Witness ==
    /\ QueryDone /\ top_k >= 1
    /\ Len(default_results) >= top_k
    /\ "default" \in searched /\ "cbeta" \notin searched

\* C20: a search that raises ends nothing.  A finished query_sutra has gone
\* through all the default-sutra searches and, unless those returned at
\* least top_k results, through the full-corpus and the user-document
\* search as well; and when any of its searches returned passages, each of
\* those passages, or the passage the deduplication of lines 214-221 keeps
\* in its place, is among the candidates that were ranked.
C20_SearchFailureIsolated ==
    QueryDone =>
        /\ "default" \in searched /\ sutra_index = NumDefaultSutras
        /\ (Len(default_results) < top_k) => {"cbeta", "custom"} \subseteq searched
        /\ any_hit =>
              \A r \in Range(VectorStoreSearch(store, top_k)) :
                 \E c \in Range(candidates) : SameSutraAndPrefix(c, r)

\* ten searches were issued, some raised and some returned passages
C20_Witness ==
    /\ QueryDone /\ searched = {"default", "cbeta", "custom"}
    /\ any_hit /\ store # {}
    /\ Len(all_results) < (NumDefaultSutras + 2) * Len(VectorStoreSearch(store, top_k))
    /\ Returned /\ \E c \in Range(result.value) : \E d \in store : c.text = DocText(d)

----------------------------------------------------------------------------
(* EmbeddingService: logging of the fallback *)

\* the log entries the get_embedding calls of this instance wrote on falling
\* back, in order
FallbackLogEntries ==
    LET RECURSIVE Concat(_)
        Concat(i) == IF i = 0 THEN <<>> ELSE Concat(i - 1) \o fake_returns[i].logged
    IN Concat(Len(fake_returns))

\* C21 as stated: over the lifetime of one EmbeddingService the log entry
\* that announces the fallback is written at most once, however many
\* get_embedding calls fall back.
C21_FallbackLoggedOnce == Len(FallbackLogEntries) <= 1

----------------------------------------------------------------------------
(* query_sutra without reranking *)

\* the candidates of a finished call after the deduplication of lines 214-221
DedupCandidates == UniqueResults(candidates)

\* the ordering and the cut of lines 157-159 and 232-235, on their own: the
\* returned list is sorted and nothing that was left out scores higher than
\* something returned
SortedAndBest ==
    /\ Returned /\ IsSortedDesc(result.value, "relevance")
    /\ \A j \in 1..Len(result.value) : result.value[j] \in Range(candidates)
    /\ \A c \in Range(candidates) \ Range(result.value) :
          \A j \in 1..Len(result.value) :
             Get(c, "relevance", 0) <= Get(result.value[j], "relevance", 0)

\* C22 as stated: without reranking a finished query_sutra returns, in
\* non-increasing order of score, the top_k highest-scoring deduplicated
\* candidates: min(top_k, number of deduplicated candidates) of them, no
\* passage twice, none left out that scores higher than a returned one.
C22_SortedTopKWithoutRerank ==
    (QueryDone /\ ~use_rerank) =>
        /\ SortedAndBest
        /\ Len(result.value) = Min(top_k, Len(DedupCandidates))
        /\ \A i, j \in 1..Len(result.value) :
              i # j => ResultId(result.value[i]) # ResultId(result.value[j])

----------------------------------------------------------------------------
(* Reranker.rerank on an empty list *)

\* C23: Reranker.rerank called with no texts returns the empty list and
\* passes nothing to get_embedding, not even the query.
C23_EmptyRerankCallsNothing ==
    (rr_call.name = "rerank" /\ rr_call.texts = <<>>) =>
        rr_call.returned = <<>> /\ rr_call.embedded = <<>>

C23_Witness ==
    /\ rr_call.name = "rerank" /\ rr_call.texts = <<>> /\ rr_call.query # <<>>
    /\ rr_call.returned = <<>>

----------------------------------------------------------------------------
(* UserManager: the cap on the chat history *)

\* C28: whatever store_message calls were made for a user since the history
\* was last cleared, the user's chat_history holds at most 2 * HISTORY_LIMIT
\* messages, and they are the last ones stored, in the order they were
\* stored.
C28_HistoryIsLastStored ==
    \A u \in Users :
        LET history == EntryOf(local_storage, u).chat_history
        IN /\ Len(history) = Min(Len(stored[u]), 2 * HISTORY_LIMIT)
           /\ \A i \in 1..Len(history) :
                 history[i] = stored[u][Len(stored[u]) - Len(history) + i]

C28_Witness ==
    \E u \in Users :
        /\ um_call.name = "store_message" /\ um_call.user = u
        /\ Len(stored[u]) > 2 * HISTORY_LIMIT
        /\ Len(local_storage[u].chat_history) = 2 * HISTORY_LIMIT
        /\ local_storage[u].chat_history[1].content = Len(stored[u]) - 2 * HISTORY_LIMIT + 1

----------------------------------------------------------------------------
(* UserManager: rejected calls and the rate-limit window *)

\* how many of the calls before the last one of user u, accepted or
\* rejected, have a timestamp inside the window of the last one
EarlierInWindow(u) ==
    LET seconds == rate_log[u].seconds
        n == Len(seconds)
    IN Cardinality({i \in 1..(n - 1) : seconds[i] > seconds[n] - window_seconds})

\* C29: check_rate_limit returns True exactly when fewer than max_requests
\* of the user's earlier calls, rejected ones included, have timestamps in
\* the 60 seconds before the call.
C29_RejectedCallsCount ==
    \A u \in Users :
        rate_log[u].calls > 0 =>
            (rate_log[u].allowed <=> EarlierInWindow(u) < max_requests)

\* the first max_requests calls have left the window, the calls that were
\* rejected after them have not, and they alone keep the user rejected
C29_Witness ==
    LET seconds == rate_log["u1"].seconds
        n == Len(seconds)
    IN /\ n = MaxCalls /\ ~rate_log["u1"].allowed
       /\ um_call = [name |-> "check_rate_limit", user |-> "u1", value |-> FALSE]
       /\ \A i \in 1..max_requests : seconds[i] <= seconds[n] - window_seconds
       /\ \A i \in (max_requests + 1)..(n - 1) : seconds[i] > seconds[n] - window_seconds

----------------------------------------------------------------------------
(* handle_text_message *)

\* task t has set its user's status to processing and waits for the call
\* that is to produce the answer
InProcessing(t) ==
    tasks[t].pc \in {"get_formatted_news", "recommend_related_sutras", "generate_response"}

\* C24 as stated: while one handle_text_message invocation of a user is
\* between setting the status to processing and resetting it, no other
\* invocation for the same user is in response generation.
C24_OneQuestionPerUser ==
    \A t1, t2 \in TaskIds :
        (t1 # t2 /\ InProcessing(t1) /\ InProcessing(t2) /\ tasks[t1].user = tasks[t2].user)
            => tasks[t2].pc # "generate_response"

\* the last step was task handling of message m, from its start
Handled(m) == last_event.name = "handle_text_message" /\ last_event.message = m

Rejections == {"busy", "rate_limited", "sensitive"}

\* C25: the two clear-history messages are handled whatever the status of
\* the user is, never turned down by the busy check or the rate limit, and
\* when the handling of the confirmation is over the user's chat history is
\* empty and the user's status is idle.
C25_ClearAlwaysAvailable ==
    /\ (Handled("clear_history") \/ Handled("confirm_clear")) =>
          /\ last_event.pc = "ended" /\ last_event.verdict \notin Rejections
          /\ EntryOf(local_storage, last_event.user).request_timestamps
                = last_event.timestamps_before
    /\ Handled("confirm_clear") =>
          /\ last_event.verdict = "cleared"
          /\ HistoryOf(local_storage, last_event.user) = <<>>
          /\ last_event.user \in DOMAIN user_status
          /\ user_status[last_event.user].status = "idle"

\* the confirmation arrived while a question of the user was being answered
C25_Witness ==
    /\ Handled("confirm_clear") /\ last_event.stored_status_before = "processing"
    /\ last_event.status_before = "processing" /\ last_event.history_before # <<>>
    /\ \E t \in TaskIds : tasks[t].pc = "generate_response" /\ tasks[t].user = last_event.user

\* C27 as stated: when a handle_text_message invocation that has set the
\* user's status to processing ends, the stored status of the user is idle.
C27_ProcessingAlwaysReset ==
    ( /\ last_event.name = "handle_text_message"
      /\ last_event.pc = "ended" /\ last_event.set_processing ) =>
        /\ last_event.user \in DOMAIN user_status
        /\ user_status[last_event.user].status = "idle"

\* C30: a message that handle_text_message turns down, because the user's
\* status is processing, because check_rate_limit returned False or because
\* of a sensitive word, ends the invocation without an await on response
\* generation and leaves the user's chat history and status as they were.
C30_RejectionChangesNothing ==
    (last_event.name = "handle_text_message" /\ last_event.verdict \in Rejections) =>
        /\ last_event.pc = "ended" /\ ~last_event.set_processing
        /\ tasks[last_event.task].pc = "ended"
        /\ HistoryOf(local_storage, last_event.user) = last_event.history_before
        /\ StatusOf(user_status, last_event.user, clock) = last_event.status_before

C30_Witness ==
    /\ last_event.name = "handle_text_message" /\ last_event.verdict = "busy"
    /\ last_event.message = "question" /\ last_event.history_before # <<>>
    /\ last_event.status_before = "processing"

----------------------------------------------------------------------------
(* Retrieval calls and the state they share *)

\* C26 as stated: no step of a retrieval call (query_sutra, search_by_query,
\* and the get_embedding and rerank calls they make) writes state that the
\* calls share; of the state the calls share only the generator behind
\* np.random is ever assigned, so: no step changes that generator.
C26_NoSharedWrites == [][np_random' = np_random]_vars

====
